---- MODULE Spec2Model ----
(***************************************************************************)
(* Rockets telemetry service: the channel event bus (pubsub/channel), the *)
(* reconciler (service.messageService) and the in-memory rocket store     *)
(* (repository/inmemory).                                                 *)
(*                                                                         *)
(* The speed of a rocket is a Go int (64 bit); every speed reachable      *)
(* within the bounds below is far from the overflow range.                *)
(***************************************************************************)
EXTENDS Integers, Sequences, FiniteSets, TLC

\* ------------------------------------------------------------------ bounds
MaxMessageNumber == 3
BufferSize == 2
MaxPublishes == 3
MaxCloses == 3

\* ------------------------------------------------------------ value domains
RocketIDs == {"r1", "r2"}
MessageNumbers == 1..MaxMessageNumber
MessageTimes == {"t1", "t2"}
ZeroTime == "t0"

StatusActive == "ACTIVE"
StatusExploded == "EXPLODED"

KnownTypes ==
  {"RocketLaunched", "RocketSpeedIncreased", "RocketSpeedDecreased",
   "RocketExploded", "RocketMissionChanged"}
UnknownType == "RocketLanded"

Nil == "nil"
ErrUnknownType == "unknown message type"
ErrNotFound == "rocket not found"
ErrUnmarshal == "failed to unmarshal message"
ErrChannelFull == "channel full"
ErrCanceled == "context canceled"
PanicClosed == "panic: send on closed channel"

\* ----------------------------------------------------------------- payloads
\* msg.Message is an arbitrary JSON value.  object = FALSE is a JSON value
\* that is not an object (json.Unmarshal into a struct fails); an object
\* carries its fields, a missing field reading as the zero value.
EmptyObject ==
  [present |-> TRUE, object |-> TRUE, type |-> "", launchSpeed |-> 0, mission |-> "",
   by |-> 0, reason |-> "", newMission |-> ""]
NotAnObject == [EmptyObject EXCEPT !.object = FALSE]
\* a message without a "message" member (or with null): Message is nil;
\* marshalled it is null, which unmarshals into any struct as its zero value
NilPayload == [EmptyObject EXCEPT !.present = FALSE]
LaunchPayloads ==
  {[EmptyObject EXCEPT !.type = "Falcon-9", !.launchSpeed = 5, !.mission = "ARTEMIS"]}
SpeedPayloads == {[EmptyObject EXCEPT !.by = d] : d \in {1, 2}}
ExplodedPayloads == {[EmptyObject EXCEPT !.reason = "PRESSURE_VESSEL_FAILURE"]}
MissionPayloads == {[EmptyObject EXCEPT !.newMission = "SHUTTLE_MIR"]}

PayloadsOf(t) ==
  CASE t = "RocketLaunched" -> LaunchPayloads \cup {NotAnObject}
    [] t \in {"RocketSpeedIncreased", "RocketSpeedDecreased"} -> SpeedPayloads \cup {NotAnObject}
    [] t = "RocketExploded" -> ExplodedPayloads \cup {NotAnObject}
    [] t = "RocketMissionChanged" -> MissionPayloads \cup {NotAnObject}
    [] OTHER -> {EmptyObject}

\* models.RocketMessage
RocketMessage(ch, n, at, t, p) ==
  [Metadata |-> [Channel |-> ch, MessageNumber |-> n, MessageTime |-> at, MessageType |-> t],
   Message |-> p]

\* Every kind of event is drawn for the first rocket; the second rocket is
\* only launched, with sequence 1, which is enough to give it a record that
\* the events of the first must leave alone.
MainRocket == "r1"
OtherTypes == {"RocketLaunched"}
OtherTime == "t1"

Messages ==
  UNION {{RocketMessage(MainRocket, n, at, t, p) : n \in MessageNumbers,
                                                   at \in MessageTimes, p \in PayloadsOf(t)}
         : t \in KnownTypes \cup {UnknownType}}
  \cup
  UNION {{RocketMessage(ch, 1, OtherTime, t, p) : ch \in RocketIDs \ {MainRocket},
                                                  p \in PayloadsOf(t) \ {NotAnObject}}
         : t \in OtherTypes}

\* parseMessage[T]: marshal msg.Message and unmarshal it into T
parseMessage(msg) ==
  IF msg.Message.object
    THEN [err |-> Nil, value |-> msg.Message]
    ELSE [err |-> ErrUnmarshal, value |-> EmptyObject]

\* ------------------------------------------------------------------- store
\* RocketRepository.rockets is a Go map: a function on the ids it holds.
\* a store that keeps only the record saved last
SaveEvicting(store, rocket) == [k \in {rocket.ID} |-> rocket]

\* a store keyed by the kind of the rocket
SaveByType(store, rocket) ==
  [k \in (DOMAIN store) \cup {rocket.Type} |-> IF k = rocket.Type THEN rocket ELSE store[k]]

Save(store, rocket) ==
  [k \in (DOMAIN store) \cup {rocket.ID} |-> IF k = rocket.ID THEN rocket ELSE store[k]]

NoRocket ==
  [ID |-> "", Type |-> "", Speed |-> 0, Mission |-> "", Status |-> "",
   ExplosionReason |-> "", LastMessageNumber |-> 0, LastUpdated |-> ZeroTime]

FindByID(store, id) ==
  IF id \in DOMAIN store
    THEN [rocket |-> store[id], err |-> Nil]
    ELSE [rocket |-> NoRocket, err |-> ErrNotFound]

GetCount(store) == Cardinality(DOMAIN store)

\* the ids in the order of Go's string comparison
IdOrder == <<"r1", "r2">>

\* RocketRepository.FindAll: copies of all records, sorted by ID
FindAll(store) ==
  LET ids == SelectSeq(IdOrder, LAMBDA id : id \in DOMAIN store)
  IN [i \in 1..Len(ids) |-> store[ids[i]]]

\* RocketRepository.mu, a sync.RWMutex: the goroutine holding it for
\* writing ("" for none) and the goroutines holding it for reading
Unlocked == [writer |-> "", readers |-> {}]

\* r.mu.Lock() can return
canLock(m) == m.writer = "" /\ m.readers = {}

\* a read lock that does not wait for the writer
canRLockAlways(m) == TRUE

\* r.mu.RLock() can return
canRLock(m) == m.writer = ""

\* FindByID handing out the stored object itself
FindByIDObjectShared(store, id) ==
  [found |-> FindByID(store, id), alias |-> IF id \in DOMAIN store THEN {id} ELSE {}]

\* FindByID at the level of objects: rocketCopy := *rocket; return &rocketCopy.
\* alias is the set of map keys under which the returned object is stored:
\* none, the copy is a new object.
FindByIDObject(store, id) ==
  [found |-> FindByID(store, id), alias |-> {}]

\* FindAll handing out the stored objects themselves
FindAllObjectsShared(store) ==
  [list |-> FindAll(store),
   alias |-> [i \in 1..Len(FindAll(store)) |-> {FindAll(store)[i].ID}]]

\* FindAll at the level of objects: each element is the address of a
\* rocketCopy, an object stored under no key
FindAllObjects(store) ==
  [list |-> FindAll(store), alias |-> [i \in 1..Len(FindAll(store)) |-> {}]]

\* What a map read can yield while another goroutine is inside the map
\* assignment of Save(rocket) (a data race): the record before, the record
\* after, or the fields of the one with the stamp of the other.
racyRead(store, rocket, id) ==
  LET before == FindByID(store, id)
      after == FindByID(Save(store, rocket), id)
  IN {before, after,
      [rocket |-> [after.rocket EXCEPT !.LastMessageNumber = before.rocket.LastMessageNumber,
                                       !.LastUpdated = before.rocket.LastUpdated],
       err |-> Nil]}

\* -------------------------------------------------------------- reconciler
\* the stamping with the sequence number forgotten
updateRocketMetadataTimeOnly(rocket, msg) ==
  [rocket EXCEPT !.LastUpdated = msg.Metadata.MessageTime]

\* the stamp that leaves the time of the last update alone
updateRocketMetadataSequenceOnly(rocket, msg) ==
  [rocket EXCEPT !.LastMessageNumber = msg.Metadata.MessageNumber]

updateRocketMetadata(rocket, msg) ==
  [rocket EXCEPT !.LastMessageNumber = msg.Metadata.MessageNumber,
                 !.LastUpdated = msg.Metadata.MessageTime]

\* the test with < for <=: an event at the stored sequence is not stale
IsStaleLax(found, msg) ==
  found.err = Nil /\ msg.Metadata.MessageNumber < found.rocket.LastMessageNumber

\* the test left out
IsStaleNever(found, msg) == FALSE

\* the test that also holds back an event that comes before its predecessor
IsStaleOrEarly(found, msg) ==
  /\ found.err = Nil
  /\ \/ msg.Metadata.MessageNumber <= found.rocket.LastMessageNumber
     \/ msg.Metadata.MessageNumber > found.rocket.LastMessageNumber + 1

\* the duplicate / out-of-order test of handleMessage
IsStale(found, msg) ==
  found.err = Nil /\ msg.Metadata.MessageNumber <= found.rocket.LastMessageNumber

\* the launch that saves the fresh record without stamping it
handleRocketLaunchedUnstamped(store, channelID, msg) ==
  LET parsed == parseMessage(msg)
      rocket == [ID |-> channelID,
                 Type |-> parsed.value.type,
                 Speed |-> parsed.value.launchSpeed,
                 Mission |-> parsed.value.mission,
                 Status |-> StatusActive,
                 ExplosionReason |-> "",
                 LastMessageNumber |-> 0,
                 LastUpdated |-> ZeroTime]
  IN IF parsed.err # Nil
       THEN [rockets |-> store, err |-> parsed.err]
       ELSE [rockets |-> Save(store, rocket), err |-> Nil]

\* the launch that keeps the status and the reason of the record it finds
handleRocketLaunchedKeepingStatus(store, channelID, msg) ==
  LET parsed == parseMessage(msg)
      found == FindByID(store, channelID)
      rocket == [ID |-> channelID,
                 Type |-> parsed.value.type,
                 Speed |-> parsed.value.launchSpeed,
                 Mission |-> parsed.value.mission,
                 Status |-> IF found.err = Nil THEN found.rocket.Status ELSE StatusActive,
                 ExplosionReason |-> found.rocket.ExplosionReason,
                 LastMessageNumber |-> 0,
                 LastUpdated |-> ZeroTime]
  IN IF parsed.err # Nil
       THEN [rockets |-> store, err |-> parsed.err]
       ELSE [rockets |-> Save(store, updateRocketMetadata(rocket, msg)), err |-> Nil]

\* the launch that keeps the explosion reason of the record it finds
handleRocketLaunchedKeepingReason(store, channelID, msg) ==
  LET parsed == parseMessage(msg)
      found == FindByID(store, channelID)
      rocket == [ID |-> channelID,
                 Type |-> parsed.value.type,
                 Speed |-> parsed.value.launchSpeed,
                 Mission |-> parsed.value.mission,
                 Status |-> StatusActive,
                 ExplosionReason |-> found.rocket.ExplosionReason,
                 LastMessageNumber |-> 0,
                 LastUpdated |-> ZeroTime]
  IN IF parsed.err # Nil
       THEN [rockets |-> store, err |-> parsed.err]
       ELSE [rockets |-> Save(store, updateRocketMetadata(rocket, msg)), err |-> Nil]

handleRocketLaunched(store, channelID, msg) ==
  LET parsed == parseMessage(msg)
      rocket == [ID |-> channelID,
                 Type |-> parsed.value.type,
                 Speed |-> parsed.value.launchSpeed,
                 Mission |-> parsed.value.mission,
                 Status |-> StatusActive,
                 ExplosionReason |-> "",
                 LastMessageNumber |-> 0,
                 LastUpdated |-> ZeroTime]
  IN IF parsed.err # Nil
       THEN [rockets |-> store, err |-> parsed.err]
       ELSE [rockets |-> Save(store, updateRocketMetadata(rocket, msg)), err |-> Nil]

\* the speed change that makes a record, at rest, for a rocket it does not find
handleRocketSpeedChangedUpsert(store, channelID, msg) ==
  LET found == FindByID(store, channelID)
      parsed == parseMessage(msg)
      rocket == IF found.err = Nil THEN found.rocket
                ELSE [NoRocket EXCEPT !.ID = channelID, !.Status = StatusActive]
      changed == IF msg.Metadata.MessageType = "RocketSpeedIncreased"
                   THEN [rocket EXCEPT !.Speed = rocket.Speed + parsed.value.by]
                   ELSE [rocket EXCEPT !.Speed = rocket.Speed - parsed.value.by]
  IN IF parsed.err # Nil THEN [rockets |-> store, err |-> parsed.err]
     ELSE [rockets |-> Save(store, updateRocketMetadata(changed, msg)), err |-> Nil]

\* the speed change that stops at zero
handleRocketSpeedChangedClamped(store, channelID, msg) ==
  LET found == FindByID(store, channelID)
      parsed == parseMessage(msg)
      rocket == found.rocket
      slower == rocket.Speed - parsed.value.by
      changed == IF msg.Metadata.MessageType = "RocketSpeedIncreased"
                   THEN [rocket EXCEPT !.Speed = rocket.Speed + parsed.value.by]
                   ELSE [rocket EXCEPT !.Speed = IF slower < 0 THEN 0 ELSE slower]
  IN IF found.err # Nil THEN [rockets |-> store, err |-> ErrNotFound]
     ELSE IF parsed.err # Nil THEN [rockets |-> store, err |-> parsed.err]
     ELSE [rockets |-> Save(store, updateRocketMetadata(changed, msg)), err |-> Nil]

handleRocketSpeedChanged(store, channelID, msg) ==
  LET found == FindByID(store, channelID)
      parsed == parseMessage(msg)
      rocket == found.rocket
      changed == IF msg.Metadata.MessageType = "RocketSpeedIncreased"
                   THEN [rocket EXCEPT !.Speed = rocket.Speed + parsed.value.by]
                   ELSE [rocket EXCEPT !.Speed = rocket.Speed - parsed.value.by]
  IN IF found.err # Nil THEN [rockets |-> store, err |-> ErrNotFound]
     ELSE IF parsed.err # Nil THEN [rockets |-> store, err |-> parsed.err]
     ELSE [rockets |-> Save(store, updateRocketMetadata(changed, msg)), err |-> Nil]

\* the explosion that makes a record for a rocket it does not find
handleRocketExplodedUpsert(store, channelID, msg) ==
  LET found == FindByID(store, channelID)
      parsed == parseMessage(msg)
      rocket == IF found.err = Nil THEN found.rocket ELSE [NoRocket EXCEPT !.ID = channelID]
      changed == [rocket EXCEPT !.Status = StatusExploded,
                                !.ExplosionReason = parsed.value.reason,
                                !.Speed = 0]
  IN IF parsed.err # Nil THEN [rockets |-> store, err |-> parsed.err]
     ELSE [rockets |-> Save(store, updateRocketMetadata(changed, msg)), err |-> Nil]

\* the explosion that leaves the speed as it was
handleRocketExplodedInFlight(store, channelID, msg) ==
  LET found == FindByID(store, channelID)
      parsed == parseMessage(msg)
      rocket == found.rocket
      changed == [rocket EXCEPT !.Status = StatusExploded,
                                !.ExplosionReason = parsed.value.reason]
  IN IF found.err # Nil THEN [rockets |-> store, err |-> ErrNotFound]
     ELSE IF parsed.err # Nil THEN [rockets |-> store, err |-> parsed.err]
     ELSE [rockets |-> Save(store, updateRocketMetadata(changed, msg)), err |-> Nil]

\* the explosion that takes every rocket of the store with it
handleRocketExplodedFleet(store, channelID, msg) ==
  LET found == FindByID(store, channelID)
      parsed == parseMessage(msg)
      exploded(rocket) == [rocket EXCEPT !.Status = StatusExploded,
                                         !.ExplosionReason = parsed.value.reason,
                                         !.Speed = 0]
  IN IF found.err # Nil THEN [rockets |-> store, err |-> ErrNotFound]
     ELSE IF parsed.err # Nil THEN [rockets |-> store, err |-> parsed.err]
     ELSE [rockets |-> [k \in DOMAIN store |->
                          IF k = channelID
                            THEN updateRocketMetadata(exploded(store[k]), msg)
                            ELSE exploded(store[k])],
           err |-> Nil]

handleRocketExploded(store, channelID, msg) ==
  LET found == FindByID(store, channelID)
      parsed == parseMessage(msg)
      rocket == found.rocket
      changed == [rocket EXCEPT !.Status = StatusExploded,
                                !.ExplosionReason = parsed.value.reason,
                                !.Speed = 0]
  IN IF found.err # Nil THEN [rockets |-> store, err |-> ErrNotFound]
     ELSE IF parsed.err # Nil THEN [rockets |-> store, err |-> parsed.err]
     ELSE [rockets |-> Save(store, updateRocketMetadata(changed, msg)), err |-> Nil]

\* the mission change that puts the rocket back in service
handleRocketMissionChangedReviving(store, channelID, msg) ==
  LET found == FindByID(store, channelID)
      parsed == parseMessage(msg)
      rocket == found.rocket
      changed == [rocket EXCEPT !.Mission = parsed.value.newMission,
                                !.Status = StatusActive,
                                !.ExplosionReason = ""]
  IN IF found.err # Nil THEN [rockets |-> store, err |-> ErrNotFound]
     ELSE IF parsed.err # Nil THEN [rockets |-> store, err |-> parsed.err]
     ELSE [rockets |-> Save(store, updateRocketMetadata(changed, msg)), err |-> Nil]

handleRocketMissionChanged(store, channelID, msg) ==
  LET found == FindByID(store, channelID)
      parsed == parseMessage(msg)
      rocket == found.rocket
      changed == [rocket EXCEPT !.Mission = parsed.value.newMission]
  IN IF found.err # Nil THEN [rockets |-> store, err |-> ErrNotFound]
     ELSE IF parsed.err # Nil THEN [rockets |-> store, err |-> parsed.err]
     ELSE [rockets |-> Save(store, updateRocketMetadata(changed, msg)), err |-> Nil]

\* handleMessage with a default case that stamps the record with the
\* sequence of the event it does not know, and returns nil
handleMessageLenient(store, msg) ==
  LET channelID == msg.Metadata.Channel
      existingRocket == FindByID(store, channelID)
      t == msg.Metadata.MessageType
  IN IF IsStale(existingRocket, msg)
       THEN [rockets |-> store, err |-> Nil]
       ELSE CASE t = "RocketLaunched" -> handleRocketLaunched(store, channelID, msg)
              [] t \in {"RocketSpeedIncreased", "RocketSpeedDecreased"} ->
                   handleRocketSpeedChanged(store, channelID, msg)
              [] t = "RocketExploded" -> handleRocketExploded(store, channelID, msg)
              [] t = "RocketMissionChanged" -> handleRocketMissionChanged(store, channelID, msg)
              [] OTHER ->
                   [rockets |-> IF existingRocket.err = Nil
                                  THEN Save(store, updateRocketMetadata(existingRocket.rocket, msg))
                                  ELSE store,
                    err |-> Nil]

\* handleMessage that looks at the type and the payload of the event before
\* it looks at its sequence
handleMessageValidatingFirst(store, msg) ==
  LET channelID == msg.Metadata.Channel
      existingRocket == FindByID(store, channelID)
      t == msg.Metadata.MessageType
  IN IF t \notin KnownTypes THEN [rockets |-> store, err |-> ErrUnknownType]
     ELSE IF parseMessage(msg).err # Nil
       THEN [rockets |-> store, err |-> parseMessage(msg).err]
     ELSE IF IsStale(existingRocket, msg)
       THEN [rockets |-> store, err |-> Nil]
       ELSE CASE t = "RocketLaunched" -> handleRocketLaunched(store, channelID, msg)
              [] t \in {"RocketSpeedIncreased", "RocketSpeedDecreased"} ->
                   handleRocketSpeedChanged(store, channelID, msg)
              [] t = "RocketExploded" -> handleRocketExploded(store, channelID, msg)
              [] OTHER -> handleRocketMissionChanged(store, channelID, msg)

\* messageService.handleMessage: the store it leaves and the error it returns
handleMessage(store, msg) ==
  LET channelID == msg.Metadata.Channel
      existingRocket == FindByID(store, channelID)
      t == msg.Metadata.MessageType
  IN IF IsStale(existingRocket, msg)
       THEN [rockets |-> store, err |-> Nil]
       ELSE CASE t = "RocketLaunched" -> handleRocketLaunched(store, channelID, msg)
              [] t \in {"RocketSpeedIncreased", "RocketSpeedDecreased"} ->
                   handleRocketSpeedChanged(store, channelID, msg)
              [] t = "RocketExploded" -> handleRocketExploded(store, channelID, msg)
              [] t = "RocketMissionChanged" -> handleRocketMissionChanged(store, channelID, msg)
              [] OTHER -> [rockets |-> store, err |-> ErrUnknownType]

\* --------------------------------------------------------------- event bus
\* Publish is one operation on the channel, so the calls of several
\* goroutines interleave exactly as the calls of one do.
Publishers == {"p1"}

\* what a Publish call puts on the channel: the message, and (for the
\* record) which call of which publisher it was
Envelope(n, p, msg) == [ticket |-> n, publisher |-> p, msg |-> msg]
NoMessage == RocketMessage("", 0, ZeroTime, "", EmptyObject)
NoEnvelope == Envelope(0, "", NoMessage)

\* the events offered to the bus in the pipeline
BusMessages ==
  {RocketMessage(MainRocket, 1, "t1", "RocketLaunched",
                 [EmptyObject EXCEPT !.type = "Falcon-9", !.launchSpeed = 5, !.mission = "ARTEMIS"]),
   RocketMessage(MainRocket, 2, "t2", "RocketSpeedIncreased", [EmptyObject EXCEPT !.by = 1]),
   RocketMessage(MainRocket, 3, "t2", UnknownType, EmptyObject)}

\* the select of a Publish that sends whenever the buffer has room, closed or not
PublishOutcomesIgnoringClose(chan, isClosed, done) ==
  LET send == IF Len(chan) < BufferSize THEN {Nil} ELSE {}
      canceled == IF done THEN {ErrCanceled} ELSE {}
  IN IF send \cup canceled = {} THEN {ErrChannelFull} ELSE send \cup canceled

\* the select of a Publish on a channel without a capacity
PublishOutcomesUnbounded(chan, isClosed, done) ==
  LET send == IF isClosed THEN {PanicClosed} ELSE {Nil}
      canceled == IF done THEN {ErrCanceled} ELSE {}
  IN send \cup canceled

\* The select of Publish: the outcomes it can have.  A send on a closed
\* channel panics; a send case and a ready ctx.Done() are chosen between at
\* random; default is taken only when no case is ready.
PublishOutcomes(chan, isClosed, done) ==
  LET send == IF isClosed THEN {PanicClosed}
              ELSE IF Len(chan) < BufferSize THEN {Nil} ELSE {}
      canceled == IF done THEN {ErrCanceled} ELSE {}
  IN IF send \cup canceled = {} THEN {ErrChannelFull} ELSE send \cup canceled

\* a receive that takes the newest buffered envelope
chanRecvNewest(chan, isClosed) ==
  IF Len(chan) > 0
    THEN [ready |-> TRUE, ok |-> TRUE, env |-> chan[Len(chan)],
          rest |-> SubSeq(chan, 1, Len(chan) - 1)]
    ELSE [ready |-> isClosed, ok |-> FALSE, env |-> NoEnvelope, rest |-> chan]

\* a receive that reports !ok as soon as the channel is closed
chanRecvClosedFirst(chan, isClosed) ==
  IF isClosed
    THEN [ready |-> TRUE, ok |-> FALSE, env |-> NoEnvelope, rest |-> chan]
    ELSE IF Len(chan) > 0
      THEN [ready |-> TRUE, ok |-> TRUE, env |-> Head(chan), rest |-> Tail(chan)]
      ELSE [ready |-> FALSE, ok |-> FALSE, env |-> NoEnvelope, rest |-> chan]

\* a receive that takes two buffered envelopes off and yields the first
chanRecvDropping(chan, isClosed) ==
  IF Len(chan) > 0
    THEN [ready |-> TRUE, ok |-> TRUE, env |-> Head(chan),
          rest |-> IF Len(chan) > 1 THEN Tail(Tail(chan)) ELSE Tail(chan)]
    ELSE [ready |-> isClosed, ok |-> FALSE, env |-> NoEnvelope, rest |-> chan]

\* a receive that blocks on an empty channel, closed or not
chanRecvBlockingWhenClosed(chan, isClosed) ==
  IF Len(chan) > 0
    THEN [ready |-> TRUE, ok |-> TRUE, env |-> Head(chan), rest |-> Tail(chan)]
    ELSE [ready |-> FALSE, ok |-> FALSE, env |-> NoEnvelope, rest |-> chan]

\* msg, ok := <-p.messageChan: buffered values first, then !ok once closed
chanRecv(chan, isClosed) ==
  IF Len(chan) > 0
    THEN [ready |-> TRUE, ok |-> TRUE, env |-> Head(chan), rest |-> Tail(chan)]
    ELSE [ready |-> isClosed, ok |-> FALSE, env |-> NoEnvelope, rest |-> chan]

\* ------------------------------------------------------------------ ingest
\* uuid.Parse: the ids of the model are the UUIDs, nothing else parses
uuidParse(str) == IF str \in RocketIDs THEN Nil ELSE "invalid UUID"

validTypes ==
  {"RocketLaunched", "RocketSpeedIncreased", "RocketSpeedDecreased",
   "RocketExploded", "RocketMissionChanged"}

validateMessageMetadata(metadata) ==
  IF uuidParse(metadata.Channel) # Nil THEN "channel must be a valid UUID"
  ELSE IF metadata.MessageNumber <= 0 THEN "messageNumber must be positive"
  ELSE IF metadata.MessageTime = ZeroTime THEN "messageTime is required and cannot be zero"
  ELSE IF metadata.MessageType = "" THEN "messageType is required and cannot be empty"
  ELSE IF metadata.MessageType \notin validTypes THEN "messageType must be one of"
  ELSE Nil

\* the validation that lets any speed delta through
validateMessageContentAnyDelta(msg) ==
  LET t == msg.Metadata.MessageType
      m == msg.Message
  IN IF ~m.present THEN "message content is required"
     ELSE IF t \in validTypes /\ ~m.object THEN "invalid message"
     ELSE IF t = "RocketLaunched" /\ m.type = "" THEN "'type' field is required"
     ELSE IF t = "RocketLaunched" /\ m.launchSpeed < 0 THEN "'launchSpeed' must be non-negative"
     ELSE IF t = "RocketLaunched" /\ m.mission = "" THEN "'mission' field is required"
     ELSE IF t = "RocketExploded" /\ m.reason = "" THEN "'reason' field is required"
     ELSE IF t = "RocketMissionChanged" /\ m.newMission = "" THEN "'newMission' field is required"
     ELSE Nil

validateMessageContent(msg) ==
  LET t == msg.Metadata.MessageType
      m == msg.Message
  IN IF ~m.present THEN "message content is required"
     ELSE IF t \in validTypes /\ ~m.object THEN "invalid message"
     ELSE IF t = "RocketLaunched" /\ m.type = "" THEN "'type' field is required"
     ELSE IF t = "RocketLaunched" /\ m.launchSpeed < 0 THEN "'launchSpeed' must be non-negative"
     ELSE IF t = "RocketLaunched" /\ m.mission = "" THEN "'mission' field is required"
     ELSE IF t \in {"RocketSpeedIncreased", "RocketSpeedDecreased"} /\ m.by <= 0
       THEN "'by' must be positive"
     ELSE IF t = "RocketExploded" /\ m.reason = "" THEN "'reason' field is required"
     ELSE IF t = "RocketMissionChanged" /\ m.newMission = "" THEN "'newMission' field is required"
     ELSE Nil

\* the client of POST /messages
Clients == {"c1"}

\* a request body: JSON that binds to a RocketMessage, or something else
Body(msg) == [json |-> TRUE, msg |-> msg]
NotJSON == [json |-> FALSE, msg |-> NoMessage]

\* c.ShouldBindJSON(&msg)
ShouldBindJSON(body) ==
  IF body.json THEN [err |-> Nil, msg |-> body.msg]
               ELSE [err |-> "invalid request body", msg |-> NoMessage]

StatusAccepted == "202 Accepted"
StatusBadRequest == "400 Bad Request"
StatusInternalServerError == "500 Internal Server Error"
StatusOK == "200 OK"
StatusNotFound == "404 Not Found"

ValidLaunch ==
  RocketMessage(MainRocket, 1, "t1", "RocketLaunched",
                [EmptyObject EXCEPT !.type = "Falcon-9", !.launchSpeed = 5, !.mission = "ARTEMIS"])
ValidSpeedIncrease ==
  RocketMessage(MainRocket, 2, "t2", "RocketSpeedIncreased", [EmptyObject EXCEPT !.by = 1])

\* the request bodies sent to POST /messages: two valid events, and one body
\* for each way of failing the binding or a validation
IngestBodies ==
  {Body(ValidLaunch), Body(ValidSpeedIncrease), NotJSON}
  \cup {Body([ValidLaunch EXCEPT !.Metadata.Channel = "not-a-uuid"]),
        Body([ValidLaunch EXCEPT !.Metadata.MessageNumber = 0]),
        Body([ValidLaunch EXCEPT !.Metadata.MessageTime = ZeroTime]),
        Body([ValidLaunch EXCEPT !.Metadata.MessageType = ""]),
        Body([ValidLaunch EXCEPT !.Metadata.MessageType = UnknownType]),
        Body([ValidLaunch EXCEPT !.Message = NilPayload]),
        Body([ValidLaunch EXCEPT !.Message = NotAnObject]),
        Body([ValidLaunch EXCEPT !.Message.type = ""]),
        Body([ValidLaunch EXCEPT !.Message.launchSpeed = 0 - 1]),
        Body([ValidLaunch EXCEPT !.Message.mission = ""]),
        Body([ValidSpeedIncrease EXCEPT !.Message.by = 0]),
        Body(RocketMessage(MainRocket, 2, "t2", "RocketSpeedDecreased",
                           [EmptyObject EXCEPT !.by = 0 - 1])),
        Body(RocketMessage(MainRocket, 3, "t2", "RocketExploded", EmptyObject)),
        Body(RocketMessage(MainRocket, 3, "t2", "RocketMissionChanged", EmptyObject))}

\* ------------------------------------------------------------------- state
VARIABLES
  rockets,      \* RocketRepository.rockets
  handled,      \* the last handleMessage call: its message, its error, whether
                \* a record existed before it and with what status, whether it
                \* repeats the call before
  messageChan,  \* PubSub.messageChan: the buffered envelopes, oldest first
  closed,       \* PubSub.closed (the channel has been closed)
  ctxDone,      \* messageService.ctx has been cancelled
  stopPc,       \* messageService.Stop: "idle", "canceled" (before Close), "stopped"
  subPc,        \* Start/Subscribe: "idle", "running", "returned"
  subResult,    \* what Subscribe returned
  published,    \* number of Publish calls made so far
  pubResult,    \* the last Publish call: its envelope and what it returned
  accepted,     \* tickets of the envelopes Publish put on the channel, in order
  delivered,    \* tickets of the envelopes handed to the handler, in order
  shadow,       \* a second store, fed the same events in another order
  pair,         \* the two events being fed to rockets and shadow in opposite
                \* orders, and how many of the two each store has been fed
  backlogAtClose, \* how many envelopes were buffered when the channel was closed
  backlogAtStop, \* tickets of the envelopes that were buffered when Stop was called
  closes,       \* the Close calls made on the bus by its owner: how many have
                \* returned, and what the last one returned
  response,     \* the last PostMessage request: its body, the status of the
                \* response, and the ticket of its Publish call (0 without one)
  query,        \* the last GET request: the handler, its argument, the status
                \* of the response, what it carried, whether the service was called
  mu,           \* RocketRepository.mu
  consumer,     \* the goroutine of handleMessage, step by step: where it is,
                \* the event, the record it is about to save, what it returned
  client        \* a goroutine calling the repository: where it is, the call,
                \* the object it holds and the map keys that object is stored
                \* under, and what the calls returned

storeVars == <<rockets, handled>>
busVars == <<messageChan, closed, ctxDone, stopPc, subPc, subResult,
             published, pubResult, accepted, delivered, backlogAtClose, backlogAtStop, closes>>
orderVars == <<shadow, pair>>
ingestVars == <<response, query>>
threadVars == <<mu, consumer, client>>
vars == <<rockets, handled, messageChan, closed, ctxDone, stopPc, subPc, subResult,
          published, pubResult, accepted, delivered, shadow, pair, backlogAtClose,
          backlogAtStop, closes, response, query, mu, consumer, client>>

EmptyStore == [k \in {} |-> NoRocket]
NotReturned == "running"
NotClosed == 0 - 1
NoPair == [e1 |-> NoMessage, e2 |-> NoMessage, fed |-> 0]
NoResponse == [body |-> NotJSON, status |-> "", ticket |-> 0]
NoQuery == [op |-> "", arg |-> "", status |-> "", rocket |-> NoRocket, rockets |-> <<>>,
            queried |-> FALSE]

\* the record of a handleMessage call on store with msg that returned out
Handled(store, msg, out) ==
  [msg |-> msg, err |-> out.err,
   existed |-> msg.Metadata.Channel \in DOMAIN store,
   statusBefore |-> FindByID(store, msg.Metadata.Channel).rocket.Status,
   again |-> msg = handled.msg]

Init ==
  /\ rockets = EmptyStore
  /\ handled = [msg |-> NoMessage, err |-> Nil, existed |-> FALSE, statusBefore |-> "",
                again |-> FALSE]
  /\ messageChan = <<>>
  /\ closed = FALSE
  /\ ctxDone = FALSE
  /\ stopPc = "idle"
  /\ subPc = "idle"
  /\ subResult = NotReturned
  /\ published = 0
  /\ pubResult = [env |-> NoEnvelope, err |-> Nil]
  /\ accepted = <<>>
  /\ delivered = <<>>
  /\ shadow = EmptyStore
  /\ pair = NoPair
  /\ backlogAtClose = NotClosed
  /\ backlogAtStop = <<>>
  /\ closes = [calls |-> 0, err |-> Nil]
  /\ response = NoResponse
  /\ query = NoQuery
  /\ mu = Unlocked
  /\ consumer = [pc |-> "idle", msg |-> NoMessage, rocket |-> NoRocket, err |-> Nil]
  /\ client = [pc |-> "idle", op |-> "", id |-> "", obj |-> NoRocket, alias |-> {},
               origin |-> "", mutated |-> FALSE, err |-> Nil, list |-> <<>>, listAlias |-> <<>>,
               listMutated |-> FALSE, count |-> 0]

\* ------------------------------------------------------ reconciler on its own
\* the reconciler is handed msg
Deliver(msg) ==
  LET out == handleMessage(rockets, msg)
  IN /\ rockets' = out.rockets
     /\ handled' = Handled(rockets, msg, out)
     /\ UNCHANGED <<busVars, orderVars, ingestVars, threadVars>>

ReconcilerNext == \E msg \in Messages : Deliver(msg)

SpecReconciler == Init /\ [][ReconcilerNext]_vars

\* ---------------------------------------------------------------- pipeline
\* messageService.PublishMessage: PubSub.Publish with the service's context
PublishMessage(p, msg) ==
  /\ published < MaxPublishes
  /\ \E out \in PublishOutcomes(messageChan, closed, ctxDone) :
       LET env == Envelope(published + 1, p, msg)
       IN /\ published' = published + 1
          /\ pubResult' = [env |-> env, err |-> out]
          /\ messageChan' = IF out = Nil THEN Append(messageChan, env) ELSE messageChan
          /\ accepted' = IF out = Nil THEN Append(accepted, env.ticket) ELSE accepted
  /\ UNCHANGED <<storeVars, closed, ctxDone, stopPc, subPc, subResult, delivered,
                 backlogAtClose, backlogAtStop, closes, orderVars>>

\* a PublishMessage call made on the service directly
Publish(p, msg) ==
  /\ PublishMessage(p, msg)
  /\ UNCHANGED <<ingestVars, threadVars>>

\* handler.PostMessage: bind, validate the metadata, validate the content,
\* publish, respond. A panic of Publish is caught by the Recovery
\* middleware of gin.Default(), which responds with status 500.
PostMessage(p, body) ==
  LET bound == ShouldBindJSON(body)
      msg == bound.msg
  IN IF \/ bound.err # Nil
        \/ validateMessageMetadata(msg.Metadata) # Nil
        \/ validateMessageContent(msg) # Nil
       THEN /\ response' = [body |-> body, status |-> StatusBadRequest, ticket |-> 0]
            /\ UNCHANGED <<storeVars, busVars, orderVars, threadVars, query>>
       ELSE /\ PublishMessage(p, msg)
            /\ UNCHANGED <<threadVars, query>>
            /\ response' = [body |-> body,
                            status |-> IF pubResult'.err = Nil THEN StatusAccepted
                                                              ELSE StatusInternalServerError,
                            ticket |-> published']

\* go messageService.Start(): Subscribe begins its loop
Start ==
  /\ subPc = "idle"
  /\ subPc' = "running"
  /\ UNCHANGED <<storeVars, messageChan, closed, ctxDone, stopPc, subResult,
                 published, pubResult, accepted, delivered, backlogAtClose, backlogAtStop, closes, orderVars, ingestVars, threadVars>>

\* a variant of loopAfterHandler: Subscribe returns the handler's error
loopAfterHandlerFailFast(err) == IF err = Nil THEN "running" ELSE "returned"

\* Subscribe after handler(ctx, msg) returned err: the error is printed and
\* the for loop goes round again
loopAfterHandler(err) == "running"

\* Subscribe, case msg, ok := <-p.messageChan with ok: the handler runs
SubscribeReceive ==
  LET r == chanRecv(messageChan, closed)
      out == handleMessage(rockets, r.env.msg)
  IN /\ subPc = "running"
     /\ r.ready /\ r.ok
     /\ messageChan' = r.rest
     /\ delivered' = Append(delivered, r.env.ticket)
     /\ rockets' = out.rockets
     /\ handled' = Handled(rockets, r.env.msg, out)
     /\ subPc' = loopAfterHandler(out.err)
     /\ subResult' = IF subPc' = "running" THEN subResult ELSE out.err
     /\ UNCHANGED <<closed, ctxDone, stopPc, published, pubResult,
                    accepted, backlogAtClose, backlogAtStop, closes, orderVars, ingestVars, threadVars>>

\* Subscribe, case msg, ok := <-p.messageChan with !ok: return nil
SubscribeChannelClosed ==
  LET r == chanRecv(messageChan, closed)
  IN /\ subPc = "running"
     /\ r.ready /\ ~r.ok
     /\ subPc' = "returned"
     /\ subResult' = Nil
     /\ UNCHANGED <<storeVars, messageChan, closed, ctxDone, stopPc, published, pubResult,
                    accepted, delivered, backlogAtClose, backlogAtStop, closes, orderVars, ingestVars, threadVars>>

\* Subscribe, case <-ctx.Done(): return ctx.Err()
SubscribeCanceled ==
  /\ subPc = "running"
  /\ ctxDone
  /\ subPc' = "returned"
  /\ subResult' = ErrCanceled
  /\ UNCHANGED <<storeVars, messageChan, closed, ctxDone, stopPc, published, pubResult,
                 accepted, delivered, backlogAtClose, backlogAtStop, closes, orderVars, ingestVars, threadVars>>

\* messageService.Stop, first statement: s.cancel()
StopCancel ==
  /\ stopPc = "idle"
  /\ ctxDone' = TRUE
  /\ stopPc' = "canceled"
  /\ backlogAtStop' = [i \in 1..Len(messageChan) |-> messageChan[i].ticket]
  /\ UNCHANGED <<storeVars, messageChan, closed, subPc, subResult, published, pubResult,
                 accepted, delivered, backlogAtClose, closes, orderVars, ingestVars, threadVars>>

\* PubSub.Close: close the channel unless p.closed says it already is.
\* Close calls are taken one at a time: Stop runs once, and the owner's
\* Close is a sequential call.
\* a variant of closeChan: the channel is closed whatever p.closed says, and
\* closing a closed channel panics
closeChanUnguarded(chan, isClosed) ==
  [chan |-> chan, closed |-> TRUE, err |-> IF isClosed THEN PanicClosed ELSE Nil]

\* PubSub.Close on a bus whose channel holds chan and whose closed flag is
\* isClosed: the channel is closed unless the flag is set, what it buffers
\* stays in it, nil is returned
closeChan(chan, isClosed) ==
  [chan |-> chan, closed |-> TRUE, err |-> Nil]

PubSubClose ==
  /\ closed' = closeChan(messageChan, closed).closed
  /\ backlogAtClose' = IF closed THEN backlogAtClose ELSE Len(messageChan)

\* messageService.Stop, second statement: s.pubsub.Close()
StopClose ==
  /\ stopPc = "canceled"
  /\ PubSubClose
  /\ stopPc' = "stopped"
  /\ UNCHANGED <<storeVars, messageChan, ctxDone, subPc, subResult, published, pubResult,
                 accepted, delivered, backlogAtStop, closes, orderVars, ingestVars, threadVars>>

\* PubSub.Close called on the bus by its owner
Close ==
  /\ PubSubClose
  /\ UNCHANGED <<storeVars, messageChan, ctxDone, stopPc, subPc, subResult, published,
                 pubResult, accepted, delivered, backlogAtStop, closes, orderVars, ingestVars, threadVars>>

\* --------------------------------------------- two stores, two orders of events
\* the events fed to the two stores: those of the main rocket at one time
OrderMessages ==
  {m \in Messages : m.Metadata.Channel = MainRocket /\ m.Metadata.MessageTime = OtherTime}

\* both stores are handed msg
Feed(msg) ==
  /\ pair.fed = 0
  /\ rockets' = handleMessage(rockets, msg).rockets
  /\ shadow' = handleMessage(shadow, msg).rockets
  /\ UNCHANGED <<handled, pair, busVars, ingestVars, threadVars>>

\* rockets is handed e1 and shadow is handed e2, the later event of the two
FeedFirst(e1, e2) ==
  /\ pair.fed = 0
  /\ e1.Metadata.MessageNumber < e2.Metadata.MessageNumber
  /\ rockets' = handleMessage(rockets, e1).rockets
  /\ shadow' = handleMessage(shadow, e2).rockets
  /\ pair' = [e1 |-> e1, e2 |-> e2, fed |-> 1]
  /\ UNCHANGED <<handled, busVars, ingestVars, threadVars>>

\* rockets is handed e2 and shadow is handed e1
FeedSecond ==
  /\ pair.fed = 1
  /\ rockets' = handleMessage(rockets, pair.e2).rockets
  /\ shadow' = handleMessage(shadow, pair.e1).rockets
  /\ pair' = [pair EXCEPT !.fed = 2]
  /\ UNCHANGED <<handled, busVars, ingestVars, threadVars>>

OrderNext ==
  \/ \E msg \in OrderMessages : Feed(msg)
  \/ \E e1 \in OrderMessages, e2 \in OrderMessages : FeedFirst(e1, e2)
  \/ FeedSecond

SpecOrder == Init /\ [][OrderNext]_vars

Subscribe == SubscribeReceive \/ SubscribeChannelClosed \/ SubscribeCanceled

\* the service as main wires it: publishers, the consumer goroutine, Stop
Next ==
  \/ \E p \in Publishers, msg \in BusMessages : Publish(p, msg)
  \/ Start
  \/ SubscribeReceive
  \/ SubscribeChannelClosed
  \/ SubscribeCanceled
  \/ StopCancel
  \/ StopClose

Spec == Init /\ [][Next]_vars

\* the bus with an owner that may also close it without cancelling
\* PubSub.Close called on the bus by its owner, and what it returned
CloseCall ==
  /\ closes.calls < MaxCloses
  /\ PubSubClose
  /\ messageChan' = closeChan(messageChan, closed).chan
  /\ closes' = [calls |-> closes.calls + 1, err |-> closeChan(messageChan, closed).err]
  /\ UNCHANGED <<storeVars, ctxDone, stopPc, subPc, subResult, published, pubResult,
                 accepted, delivered, backlogAtStop, orderVars, ingestVars, threadVars>>

BusNext ==
  \/ Next
  \/ Close

SpecBus == Init /\ [][BusNext]_vars

\* the consumer goroutine, once started, is scheduled again and again
FairSpecBus == SpecBus /\ WF_vars(Start) /\ WF_vars(Subscribe)

\* a bus that its owner closes again and again
CloseNext ==
  \/ \E p \in Publishers, msg \in BusMessages : Publish(p, msg)
  \/ Start
  \/ SubscribeReceive
  \/ SubscribeChannelClosed
  \/ CloseCall

SpecClose == Init /\ [][CloseNext]_vars

\* the server as main wires it: POST /messages is the only publisher
IngestNext ==
  \/ \E p \in Clients, body \in IngestBodies : PostMessage(p, body)
  \/ Start
  \/ SubscribeReceive
  \/ SubscribeChannelClosed
  \/ SubscribeCanceled
  \/ StopCancel
  \/ StopClose

SpecIngest == Init /\ [][IngestNext]_vars

\* ------------------------------------- the repository and its goroutines
\* Each repository call is two steps: the lock is taken; the map is
\* accessed and the lock released (the deferred Unlock / RUnlock).
otherVars == <<handled, busVars, orderVars, ingestVars>>

\* the events handed to the step-by-step handleMessage
StoreMessages == {ValidLaunch, ValidSpeedIncrease}

\* the objects a client makes itself
ClientRockets ==
  {[NoRocket EXCEPT !.ID = "r1", !.Type = "Falcon-9", !.Speed = 7, !.Mission = "ARTEMIS",
                    !.Status = StatusActive, !.LastMessageNumber = 3, !.LastUpdated = "t2"],
   [NoRocket EXCEPT !.ID = "r2", !.Type = "Falcon-9", !.Speed = 7, !.Mission = "ARTEMIS",
                    !.Status = StatusActive, !.LastMessageNumber = 1, !.LastUpdated = "t1"]}

\* the handler handleMessage dispatches to
handlerOf(store, msg) ==
  LET channelID == msg.Metadata.Channel
      t == msg.Metadata.MessageType
  IN CASE t = "RocketLaunched" -> handleRocketLaunched(store, channelID, msg)
       [] t \in {"RocketSpeedIncreased", "RocketSpeedDecreased"} ->
            handleRocketSpeedChanged(store, channelID, msg)
       [] t = "RocketExploded" -> handleRocketExploded(store, channelID, msg)
       [] t = "RocketMissionChanged" -> handleRocketMissionChanged(store, channelID, msg)
       [] OTHER -> [rockets |-> store, err |-> ErrUnknownType]

\* handleMessage is called with msg
ConsumerReceive(msg) ==
  /\ consumer.pc = "idle"
  /\ consumer' = [pc |-> "find", msg |-> msg, rocket |-> NoRocket, err |-> Nil]
  /\ UNCHANGED <<rockets, mu, client, otherVars>>

\* r.mu.RLock() in the FindByID of handleMessage, or in that of a handler
ConsumerRLock ==
  /\ consumer.pc \in {"find", "refind"}
  /\ canRLock(mu)
  /\ mu' = [mu EXCEPT !.readers = @ \cup {"consumer"}]
  /\ consumer' = [consumer EXCEPT !.pc = IF @ = "find" THEN "finding" ELSE "refinding"]
  /\ UNCHANGED <<rockets, client, otherVars>>

\* handleMessage: FindByID returns; the staleness test; the dispatch; the
\* launch handler up to its Save
ConsumerFound ==
  LET msg == consumer.msg
      existingRocket == FindByID(rockets, msg.Metadata.Channel)
      launched == handleRocketLaunched(rockets, msg.Metadata.Channel, msg)
      return(err) == [consumer EXCEPT !.pc = "idle", !.err = err]
  IN /\ consumer.pc = "finding"
     /\ mu' = [mu EXCEPT !.readers = @ \ {"consumer"}]
     /\ consumer' =
          IF IsStale(existingRocket, msg) THEN return(Nil)
          ELSE IF msg.Metadata.MessageType \notin KnownTypes THEN return(handlerOf(rockets, msg).err)
          ELSE IF msg.Metadata.MessageType # "RocketLaunched"
            THEN [consumer EXCEPT !.pc = "refind"]
          ELSE IF launched.err # Nil THEN return(launched.err)
          ELSE [consumer EXCEPT !.pc = "save",
                                !.rocket = launched.rockets[msg.Metadata.Channel]]
     /\ UNCHANGED <<rockets, client, otherVars>>

\* a speed, explosion or mission handler: FindByID returns, the payload is
\* parsed, the copy is changed and stamped
ConsumerRefound ==
  LET msg == consumer.msg
      out == handlerOf(rockets, msg)
  IN /\ consumer.pc = "refinding"
     /\ mu' = [mu EXCEPT !.readers = @ \ {"consumer"}]
     /\ consumer' =
          IF out.err # Nil
            THEN [consumer EXCEPT !.pc = "idle", !.err = out.err]
            ELSE [consumer EXCEPT !.pc = "save", !.rocket = out.rockets[msg.Metadata.Channel]]
     /\ UNCHANGED <<rockets, client, otherVars>>

\* r.mu.Lock() in the Save of a handler
ConsumerLock ==
  /\ consumer.pc = "save"
  /\ canLock(mu)
  /\ mu' = [mu EXCEPT !.writer = "consumer"]
  /\ consumer' = [consumer EXCEPT !.pc = "writing"]
  /\ UNCHANGED <<rockets, client, otherVars>>

\* r.rockets[rocket.ID] = rocket in the Save of a handler, and the return
\* of handleMessage. The key now holds the handler's object, not the
\* client's.
ConsumerSave ==
  /\ consumer.pc = "writing"
  /\ rockets' = Save(rockets, consumer.rocket)
  /\ mu' = [mu EXCEPT !.writer = ""]
  /\ consumer' = [consumer EXCEPT !.pc = "idle", !.err = Nil]
  /\ client' = [client EXCEPT !.alias = @ \ {consumer.rocket.ID},
                              !.listAlias = [i \in DOMAIN @ |-> @[i] \ {consumer.rocket.ID}]]
  /\ UNCHANGED otherVars

ErrNilRocket == "cannot save nil rocket"
ReadCalls == {"FindByID", "FindAll", "GetCount"}

\* the client makes an object of its own
ClientNew(rocket) ==
  /\ client.pc = "idle"
  /\ client' = [client EXCEPT !.obj = rocket, !.alias = {}, !.origin = "new",
                              !.mutated = FALSE, !.err = Nil, !.list = <<>>, !.listAlias = <<>>,
                              !.listMutated = FALSE, !.count = 0]
  /\ UNCHANGED <<rockets, mu, consumer, otherVars>>

\* the client calls FindByID(id), FindAll(), GetCount() or Save(obj)
ClientCall(op, id) ==
  /\ client.pc = "idle"
  /\ op = "FindByID" <=> id # ""
  /\ op = "Save" => client.obj # NoRocket
  /\ client' = [client EXCEPT !.pc = "call", !.op = op, !.id = id,
                              !.err = Nil, !.list = <<>>, !.listAlias = <<>>,
                              !.listMutated = FALSE, !.count = 0]
  /\ UNCHANGED <<rockets, mu, consumer, otherVars>>

\* Save(nil): the error is returned before the lock is taken
ClientSaveNil ==
  /\ client.pc = "idle"
  /\ client.obj = NoRocket
  /\ client.err # ErrNilRocket
  /\ client' = [client EXCEPT !.err = ErrNilRocket]
  /\ UNCHANGED <<rockets, mu, consumer, otherVars>>

\* r.mu.RLock() in FindByID, FindAll or GetCount
ClientRLock ==
  /\ client.pc = "call"
  /\ client.op \in ReadCalls
  /\ canRLock(mu)
  /\ mu' = [mu EXCEPT !.readers = @ \cup {"client"}]
  /\ client' = [client EXCEPT !.pc = "reading"]
  /\ UNCHANGED <<rockets, consumer, otherVars>>

\* r.mu.Lock() in Save
ClientLock ==
  /\ client.pc = "call"
  /\ client.op = "Save"
  /\ canLock(mu)
  /\ mu' = [mu EXCEPT !.writer = "client"]
  /\ client' = [client EXCEPT !.pc = "writing"]
  /\ UNCHANGED <<rockets, consumer, otherVars>>

\* FindByID returns: the client holds the returned object
ClientFound ==
  /\ client.pc = "reading"
  /\ client.op = "FindByID"
  /\ mu' = [mu EXCEPT !.readers = @ \ {"client"}]
  /\ \E found \in IF consumer.pc = "writing"
                     THEN racyRead(rockets, consumer.rocket, client.id)
                     ELSE {FindByID(rockets, client.id)} :
       client' = [client EXCEPT !.pc = "idle", !.op = "", !.id = "",
                                !.obj = found.rocket,
                                !.alias = IF found.err = Nil
                                            THEN FindByIDObject(rockets, client.id).alias
                                            ELSE {},
                                !.origin = IF found.err = Nil THEN "FindByID" ELSE "",
                                !.mutated = FALSE,
                                !.err = found.err]
  /\ UNCHANGED <<rockets, consumer, otherVars>>

\* FindAll returns
ClientListed ==
  /\ client.pc = "reading"
  /\ client.op = "FindAll"
  /\ mu' = [mu EXCEPT !.readers = @ \ {"client"}]
  /\ client' = [client EXCEPT !.pc = "idle", !.op = "",
                              !.list = FindAllObjects(rockets).list,
                              !.listAlias = FindAllObjects(rockets).alias]
  /\ UNCHANGED <<rockets, consumer, otherVars>>

\* GetCount returns
ClientCounted ==
  /\ client.pc = "reading"
  /\ client.op = "GetCount"
  /\ mu' = [mu EXCEPT !.readers = @ \ {"client"}]
  /\ client' = [client EXCEPT !.pc = "idle", !.op = "", !.count = GetCount(rockets)]
  /\ UNCHANGED <<rockets, consumer, otherVars>>

\* r.rockets[rocket.ID] = rocket in the client's Save: the map now holds
\* the client's object under its ID
ClientSaved ==
  /\ client.pc = "writing"
  /\ rockets' = Save(rockets, client.obj)
  /\ mu' = [mu EXCEPT !.writer = ""]
  /\ client' = [client EXCEPT !.pc = "idle", !.op = "", !.err = Nil,
                              !.alias = @ \cup {client.obj.ID}, !.origin = "Save",
                              !.listAlias = [i \in DOMAIN @ |-> @[i] \ {client.obj.ID}]]
  /\ UNCHANGED <<consumer, otherVars>>

\* the client assigns to a field of the object it holds; the map sees the
\* assignment under every key that holds this very object
ClientMutate ==
  LET changed == [client.obj EXCEPT !.Speed = 99]
  IN /\ client.pc = "idle"
     /\ client.obj # NoRocket
     /\ client.obj.Speed # 99
     /\ client' = [client EXCEPT !.obj = changed, !.mutated = TRUE]
     /\ rockets' = [id \in DOMAIN rockets |->
                      IF id \in client.alias THEN changed ELSE rockets[id]]
     /\ UNCHANGED <<mu, consumer, otherVars>>

\* the client assigns to a field of an element of the list FindAll returned
ClientMutateListed(i) ==
  LET changed == [client.list[i] EXCEPT !.Speed = 99]
  IN /\ client.pc = "idle"
     /\ i \in DOMAIN client.list
     /\ client.list[i].Speed # 99
     /\ client' = [client EXCEPT !.list[i] = changed, !.listMutated = TRUE]
     /\ rockets' = [id \in DOMAIN rockets |->
                      IF id \in client.listAlias[i] THEN changed ELSE rockets[id]]
     /\ UNCHANGED <<mu, consumer, otherVars>>

StoreNext ==
  \/ \E msg \in StoreMessages : ConsumerReceive(msg)
  \/ ConsumerRLock
  \/ ConsumerFound
  \/ ConsumerRefound
  \/ ConsumerLock
  \/ ConsumerSave
  \/ \E rocket \in ClientRockets : ClientNew(rocket)
  \/ \E op \in ReadCalls \cup {"Save"}, id \in RocketIDs \cup {""} : ClientCall(op, id)
  \/ ClientSaveNil
  \/ ClientRLock
  \/ ClientLock
  \/ ClientFound
  \/ ClientListed
  \/ ClientCounted
  \/ ClientSaved
  \/ ClientMutate
  \/ \E i \in 1..Len(IdOrder) : ClientMutateListed(i)

SpecStore == Init /\ [][StoreNext]_vars

\* ------------------------------------------------------- the query handlers
\* the ids a GET /rockets/:id request carries
QueryIDs == RocketIDs \cup {"not-a-uuid"}

\* the events that fill the store the queries read
QueryMessages ==
  {RocketMessage("r1", 1, "t1", "RocketLaunched", CHOOSE p \in LaunchPayloads : TRUE),
   RocketMessage("r1", 2, "t2", "RocketSpeedIncreased", [EmptyObject EXCEPT !.by = 1]),
   RocketMessage("r1", 3, "t2", "RocketExploded", CHOOSE p \in ExplodedPayloads : TRUE),
   RocketMessage("r2", 1, "t1", "RocketLaunched",
                 [EmptyObject EXCEPT !.type = "Ariane-5", !.launchSpeed = 5,
                                     !.mission = "SHUTTLE_MIR"])}

\* a variant of GetRocket: the id is handed to the service unparsed
GetRocketUnparsed(store, id) ==
  LET found == FindByID(store, id)
  IN IF found.err # Nil
       THEN [status |-> StatusNotFound, rocket |-> NoRocket, queried |-> TRUE]
       ELSE [status |-> StatusOK, rocket |-> found.rocket, queried |-> TRUE]

\* handler.GetRocket: parse the id, ask the service (rocketService.GetRocket
\* is repo.FindByID), respond
GetRocket(store, id) ==
  IF uuidParse(id) # Nil
    THEN [status |-> StatusBadRequest, rocket |-> NoRocket, queried |-> FALSE]
    ELSE LET found == FindByID(store, id)
         IN IF found.err # Nil
              THEN [status |-> StatusNotFound, rocket |-> NoRocket, queried |-> TRUE]
              ELSE [status |-> StatusOK, rocket |-> found.rocket, queried |-> TRUE]

\* GET /rockets/:id
GetRocketRequest(id) ==
  LET out == GetRocket(rockets, id)
  IN /\ query' = [NoQuery EXCEPT !.op = "GetRocket", !.arg = id, !.status = out.status,
                                  !.rocket = out.rocket, !.queried = out.queried]
     /\ UNCHANGED <<storeVars, busVars, orderVars, threadVars, response>>

\* the strings of the model in the order of Go's < on strings (byte-wise)
StringOrder ==
  <<"", "ACTIVE", "ARTEMIS", "Ariane-5", "EXPLODED", "Falcon-9", "SHUTTLE_MIR">>

\* a < b on strings
StringLess(a, b) ==
  \E i, j \in 1..Len(StringOrder) : StringOrder[i] = a /\ StringOrder[j] = b /\ i < j

\* what sort.Slice may leave of list under less, a function of two elements
\* of the list: a permutation in which no
\* element is less than one before it; sort.Slice is not stable, so equal
\* elements come out in any order
sortSlice(list, less) ==
  LET n == Len(list)
      perms == {f \in [1..n -> 1..n] : \A i, j \in 1..n : i # j => f[i] # f[j]}
  IN {out \in {[i \in 1..n |-> list[f[i]]] : f \in perms} :
        \A i, j \in 1..n : i < j => ~less[out[j], out[i]]}

\* the sort keys ListRockets is called with
SortKeys == {"id", "type", "speed", "mission", "status", "name"}

\* a variant of ListRockets: the fastest rocket comes last
ListRocketsSlowestFirst(store, sortBy) ==
  LET all == {FindAll(store)[i] : i \in 1..Len(FindAll(store))}
      byType == [a \in all, b \in all |-> StringLess(a.Type, b.Type)]
      bySpeed == [a \in all, b \in all |-> a.Speed < b.Speed]
      byMission == [a \in all, b \in all |-> StringLess(a.Mission, b.Mission)]
      byStatus == [a \in all, b \in all |-> StringLess(a.Status, b.Status)]
  IN CASE sortBy = "type" -> sortSlice(FindAll(store), byType)
       [] sortBy = "speed" -> sortSlice(FindAll(store), bySpeed)
       [] sortBy = "mission" -> sortSlice(FindAll(store), byMission)
       [] sortBy = "status" -> sortSlice(FindAll(store), byStatus)
       [] OTHER -> {FindAll(store)}

\* rocketService.ListRockets: the lists it may return. FindAll's list, which
\* is in id order, is sorted again by the key of the switch; a key without
\* a case leaves it as FindAll returned it.
ListRockets(store, sortBy) ==
  LET all == {FindAll(store)[i] : i \in 1..Len(FindAll(store))}
      byType == [a \in all, b \in all |-> StringLess(a.Type, b.Type)]
      bySpeed == [a \in all, b \in all |-> a.Speed > b.Speed]
      byMission == [a \in all, b \in all |-> StringLess(a.Mission, b.Mission)]
      byStatus == [a \in all, b \in all |-> StringLess(a.Status, b.Status)]
  IN CASE sortBy = "type" -> sortSlice(FindAll(store), byType)
       [] sortBy = "speed" -> sortSlice(FindAll(store), bySpeed)
       [] sortBy = "mission" -> sortSlice(FindAll(store), byMission)
       [] sortBy = "status" -> sortSlice(FindAll(store), byStatus)
       [] OTHER -> {FindAll(store)}

\* a ListRockets call on the service
ListRocketsCall(sortBy) ==
  /\ \E out \in ListRockets(rockets, sortBy) :
       query' = [NoQuery EXCEPT !.op = "ListRockets", !.arg = sortBy, !.status = Nil,
                                !.rockets = out, !.queried = TRUE]
  /\ UNCHANGED <<storeVars, busVars, orderVars, threadVars, response>>

QueryNext ==
  \/ \E msg \in QueryMessages : Deliver(msg)
  \/ \E id \in QueryIDs : GetRocketRequest(id)
  \/ \E sortBy \in SortKeys : ListRocketsCall(sortBy)

SpecQuery == Init /\ [][QueryNext]_vars

\* ================================================================== claims
ChannelOf(msg) == msg.Metadata.Channel
NumberOf(msg) == msg.Metadata.MessageNumber
TypeOf(msg) == msg.Metadata.MessageType

\* the event is at or below the last_sequence of an existing record of store
StaleIn(store, msg) ==
  /\ ChannelOf(msg) \in DOMAIN store
  /\ NumberOf(msg) <= store[ChannelOf(msg)].LastMessageNumber

\* C1: an event delivered to handleMessage whose sequence is at or below the
\* last_sequence of the existing record of its entity leaves the store
\* unchanged and returns no error, whatever its type and payload.
StalenessNoOp ==
  [][StaleIn(rockets, handled'.msg) => (rockets' = rockets /\ handled'.err = Nil)]_vars

\* C1 witness: an event of unknown type below the last_sequence of its
\* rocket has been handled without an error.
StaleUnknownDiscarded ==
  /\ TypeOf(handled.msg) = UnknownType
  /\ ChannelOf(handled.msg) \in DOMAIN rockets
  /\ NumberOf(handled.msg) < rockets[ChannelOf(handled.msg)].LastMessageNumber
  /\ handled.err = Nil

\* C2: handing handleMessage the event it was handed just before changes
\* nothing in the store: the second application is a no-op.
Idempotence ==
  [][handled'.again => rockets' = rockets]_vars

\* C2 witness: a speed increase that was applied (the record carries its
\* sequence) has been handed to handleMessage a second time in a row.
SpeedIncreaseRepeated ==
  /\ handled.again
  /\ TypeOf(handled.msg) = "RocketSpeedIncreased"
  /\ handled.msg.Message.object
  /\ handled.err = Nil
  /\ ChannelOf(handled.msg) \in DOMAIN rockets
  /\ rockets[ChannelOf(handled.msg)].LastMessageNumber = NumberOf(handled.msg)

\* the record of the rocket the pair is about, in store
PairRecord(store) == FindByID(store, ChannelOf(pair.e1))

MonotonicSequence ==
  [][\A id \in DOMAIN rockets :
       /\ id \in DOMAIN rockets'
       /\ rockets'[id].LastMessageNumber >= rockets[id].LastMessageNumber]_vars

\* C4 witness: a launch was applied to a rocket that already had a record
\* (a re-launch), and the record carries the sequence of that launch.
Relaunched ==
  /\ TypeOf(handled.msg) = "RocketLaunched"
  /\ handled.existed
  /\ ~handled.again
  /\ handled.err = Nil
  /\ ChannelOf(handled.msg) \in DOMAIN rockets
  /\ rockets[ChannelOf(handled.msg)].LastMessageNumber = NumberOf(handled.msg)
  /\ NumberOf(handled.msg) > 1

ExplodedAtRest(store, id) ==
  /\ id \in DOMAIN store
  /\ store[id].Status = StatusExploded
  /\ store[id].Speed = 0

\* C5 as stated: once an Exploded event has been applied to a rocket (its
\* record is EXPLODED with speed 0), the record is EXPLODED with speed 0 in
\* every later store state, whatever events follow.
ExplosionInvariant ==
  [][\A id \in RocketIDs : ExplodedAtRest(rockets, id) => ExplodedAtRest(rockets', id)]_vars

\* the step is a Publish call
PublishStep == published' = published + 1

RejectionErrors == {ErrChannelFull, ErrCanceled}

Tickets(chan) == [i \in 1..Len(chan) |-> chan[i].ticket]

\* C6 as stated: a Publish call made while the channel holds BufferSize
\* envelopes returns a rejection error and leaves the channel as it was; one
\* made while the channel has room and the bus is neither cancelled nor
\* closed returns nil and appends its envelope once.
SheddingOnFullBuffer ==
  [][PublishStep =>
       /\ Len(messageChan) = BufferSize =>
            (pubResult'.err \in RejectionErrors /\ messageChan' = messageChan)
       /\ (Len(messageChan) < BufferSize /\ ~ctxDone /\ ~closed) =>
            (pubResult'.err = Nil /\ messageChan' = Append(messageChan, pubResult'.env))]_vars

\* C7 as stated: in every bus state a Publish call returns nil or a
\* rejection error; it never crashes its caller.
PublishAlwaysReturns ==
  pubResult.err \in {Nil} \cup RejectionErrors

FifoAtMostOnce ==
  /\ accepted = delivered \o Tickets(messageChan)
  /\ \A i \in 1..Len(delivered) : \A j \in 1..Len(delivered) :
       i < j => delivered[i] < delivered[j]

\* C9 witness: two envelopes were delivered, the third Publish call was
\* rejected because the channel was full, and nothing else was accepted.
TwoDeliveredOneShed ==
  /\ Len(delivered) = 2
  /\ pubResult.err = ErrChannelFull
  /\ published > Len(accepted)
  /\ Len(accepted) = 2

\* C10: when the channel was closed and no cancellation was signalled,
\* Subscribe goes on to return; and when it has returned without a
\* cancellation it returned nil, the channel is empty and every accepted
\* envelope was delivered, in order.
GracefulDrainOnClose ==
  /\ [](( subPc = "returned" /\ ~ctxDone) =>
          (subResult = Nil /\ messageChan = <<>> /\ delivered = accepted))
  /\ (closed ~> (subPc = "returned" \/ ctxDone))

\* C10 witness: the channel was closed with a full buffer, no cancellation
\* was signalled, and Subscribe returned nil after delivering everything.
DrainedFullBuffer ==
  /\ backlogAtClose = BufferSize
  /\ ~ctxDone
  /\ subPc = "returned"
  /\ subResult = Nil
  /\ Len(delivered) >= BufferSize
  /\ delivered = accepted

\* the step is the return of Subscribe
SubscribeReturns == subPc = "running" /\ subPc' = "returned"

\* the tickets of a sequence of tickets
TicketSet(tickets) == {tickets[i] : i \in 1..Len(tickets)}

\* C11 as stated: when Stop was called while accepted envelopes were still
\* buffered, every one of those envelopes has been handed to the handler
\* by the time Subscribe returns.
NoMessageLossOnShutdown ==
  [][SubscribeReturns => TicketSet(backlogAtStop) \subseteq TicketSet(delivered')]_vars

\* C12 as stated: once the cancellation was signalled with envelopes still
\* buffered, a running Subscribe hands no further envelope to the handler,
\* and when it returns it returns the cancellation error, whether or not
\* the channel has been closed since.
HardCancel ==
  [][(ctxDone /\ backlogAtStop # <<>> /\ subPc = "running") =>
       /\ delivered' = delivered
       /\ SubscribeReturns => subResult' = ErrCanceled]_vars

\* C13: a handler call that returns an error leaves Subscribe running, a
\* running Subscribe with a buffered envelope can always receive it, and
\* Subscribe returns only once the cancellation was signalled or the
\* channel was closed.
KeepConsumingAfterFailure ==
  /\ [][(delivered' # delivered /\ handled'.err # Nil) => subPc' = "running"]_vars
  /\ []((subPc = "running" /\ messageChan # <<>>) => ENABLED SubscribeReceive)
  /\ [][SubscribeReturns => (ctxDone \/ closed)]_vars

\* C13 witness: with neither a cancellation nor a Close, the handler
\* returned an error for an envelope, Subscribe went on to hand it the next
\* one (the same event, failing again), and is still running.
FailedThenDelivered ==
  /\ handled.again
  /\ handled.err # Nil
  /\ Len(delivered) >= 2
  /\ subPc = "running"
  /\ ~ctxDone
  /\ ~closed

\* C14: a speed, explosion or mission event handed to handleMessage for a
\* rocket that has no record makes it return an error and leaves the store
\* as it was: no record is made for that rocket (FindByID still fails, the
\* count is the same) and every other record is untouched.
PreconditionError ==
  [][(TypeOf(handled'.msg) \in KnownTypes \ {"RocketLaunched"}
        /\ ChannelOf(handled'.msg) \notin DOMAIN rockets) =>
       /\ handled'.err # Nil
       /\ FindByID(rockets', ChannelOf(handled'.msg)).err = ErrNotFound
       /\ GetCount(rockets') = GetCount(rockets)
       /\ rockets' = rockets]_vars

\* C14 witness: an explosion with a payload that parses was handled for a
\* rocket without a record, while another rocket has one; the error is
\* 'rocket not found' and the rocket still has no record.
ExplodedWithoutRecord ==
  /\ TypeOf(handled.msg) = "RocketExploded"
  /\ parseMessage(handled.msg).err = Nil
  /\ handled.err = ErrNotFound
  /\ ~handled.existed
  /\ ChannelOf(handled.msg) \notin DOMAIN rockets
  /\ GetCount(rockets) = 1

\* C15: an event that is not stale and whose type is none of the five
\* known ones makes handleMessage return the unknown-type error and leaves
\* the store as it was; the last_sequence of its rocket does not advance.
UnknownTypeRejected ==
  [][(TypeOf(handled'.msg) \notin KnownTypes /\ ~StaleIn(rockets, handled'.msg)) =>
       (handled'.err = ErrUnknownType /\ rockets' = rockets)]_vars

\* C15 witness: an event of unknown type above the last_sequence of its
\* rocket was handled: the error is the unknown-type error and the record
\* still carries the lower sequence.
UnknownTypeOnLiveRocket ==
  /\ TypeOf(handled.msg) = UnknownType
  /\ handled.err = ErrUnknownType
  /\ handled.existed
  /\ ChannelOf(handled.msg) \in DOMAIN rockets
  /\ rockets[ChannelOf(handled.msg)].LastMessageNumber < NumberOf(handled.msg)

\* the step is a PostMessage request (one that is answered as the request
\* before it was, without a Publish call, leaves every variable as it is)
PostStep == response' # response

\* the event is malformed: one of the defects the ingest gate looks for
Malformed(msg) ==
  \/ ChannelOf(msg) \notin RocketIDs
  \/ NumberOf(msg) <= 0
  \/ msg.Metadata.MessageTime = ZeroTime
  \/ TypeOf(msg) \notin {"RocketLaunched", "RocketSpeedIncreased", "RocketSpeedDecreased",
                         "RocketExploded", "RocketMissionChanged"}
  \/ ~msg.Message.present
  \/ TypeOf(msg) = "RocketLaunched" /\ (\/ msg.Message.type = ""
                                        \/ msg.Message.mission = ""
                                        \/ msg.Message.launchSpeed < 0)
  \/ TypeOf(msg) \in {"RocketSpeedIncreased", "RocketSpeedDecreased"} /\ msg.Message.by <= 0
  \/ TypeOf(msg) = "RocketExploded" /\ msg.Message.reason = ""
  \/ TypeOf(msg) = "RocketMissionChanged" /\ msg.Message.newMission = ""

\* the body passes the binding and both validations
PassesValidation(body) ==
  /\ body.json
  /\ validateMessageMetadata(body.msg.Metadata) = Nil
  /\ validateMessageContent(body.msg) = Nil

\* C16: a PostMessage request calls Publish only for a body that passed the
\* binding and both validations; a malformed event is answered with 400 and
\* neither reaches the channel nor counts as a Publish call; an event that
\* passed is answered with 202 exactly when Publish returned nil and with
\* 500 otherwise; the request changes nothing in the store and delivers
\* nothing, and it can be answered in every state of the consumer.
IngestGate ==
  /\ [][PostStep =>
          /\ published' # published => PassesValidation(response'.body)
          /\ (response'.body.json /\ Malformed(response'.body.msg)) =>
               /\ response'.status = StatusBadRequest
               /\ published' = published
               /\ messageChan' = messageChan
          /\ PassesValidation(response'.body) =>
               /\ published' = published + 1
               /\ response'.status = StatusAccepted <=> pubResult'.err = Nil
               /\ response'.status = StatusInternalServerError <=> pubResult'.err # Nil
               /\ pubResult'.env.msg = response'.body.msg
          /\ rockets' = rockets /\ handled' = handled /\ delivered' = delivered]_vars
  /\ [](published < MaxPublishes =>
          \A p \in Clients, body \in IngestBodies : ENABLED PostMessage(p, body))

\* C16 witness: a valid event was answered with 202 and is buffered, the
\* consumer has not run, and the request after it, a speed increase by 0,
\* was answered with 400 without a Publish call.
MalformedAfterAccepted ==
  /\ response.status = StatusBadRequest
  /\ TypeOf(response.body.msg) = "RocketSpeedIncreased"
  /\ response.body.msg.Message.by = 0
  /\ published = 1
  /\ Len(messageChan) = 1
  /\ pubResult.err = Nil
  /\ subPc = "idle"

\* C17: with a consumer that is started and scheduled again and again,
\* every envelope Publish accepted is in the end handed to the handler,
\* unless the cancellation is signalled or the channel is closed.
EventualApplication ==
  \A t \in 1..MaxPublishes :
    (t \in TicketSet(accepted)) ~> (t \in TicketSet(delivered) \/ ctxDone \/ closed)

\* C17 witness: without a cancellation or a Close, a full buffer of
\* accepted envelopes and one more have all been handed to the handler by
\* the running consumer.
AllAcceptedDelivered ==
  /\ ~ctxDone
  /\ ~closed
  /\ stopPc = "idle"
  /\ subPc = "running"
  /\ Len(accepted) > BufferSize
  /\ delivered = accepted
  /\ messageChan = <<>>

\* a goroutine is inside the map assignment of Save
ConsumerWrites == consumer.pc = "writing"
ClientWrites == client.pc = "writing"
\* a goroutine is inside the read section of FindByID, FindAll or GetCount
ConsumerReads == consumer.pc \in {"finding", "refinding"}
ClientReads == client.pc = "reading"

\* the step is the return of the client's read call
ClientReadReturns == client.pc = "reading" /\ client'.pc = "idle"

\* C18: under every interleaving of the two goroutines, no two of them are
\* inside Save's write section together and none is inside a read section
\* while the other is inside the write section; and each read call
\* returns what the map holds at that moment: for FindByID the whole
\* stored record of the id (the one before a Save or the one after it) or
\* not found, for FindAll all records, for GetCount their number.
NoPartialWriteVisibility ==
  /\ [](~(ConsumerWrites /\ ClientWrites))
  /\ []((ConsumerWrites => ~ClientReads) /\ (ClientWrites => ~ConsumerReads))
  /\ [][ClientReadReturns =>
          /\ client.op = "FindByID" =>
               /\ client'.obj = FindByID(rockets, client.id).rocket
               /\ client'.err = FindByID(rockets, client.id).err
          /\ client.op = "FindAll" => client'.list = FindAll(rockets)
          /\ client.op = "GetCount" => client'.count = GetCount(rockets)]_vars

\* C18 witness: the client is inside FindByID of a rocket that has a
\* record, holding the read lock, while the handler's Save of that rocket
\* waits for the lock.
ReaderHoldsWriterWaits ==
  /\ ClientReads
  /\ client.op = "FindByID"
  /\ client.id \in DOMAIN rockets
  /\ consumer.pc = "save"
  /\ consumer.rocket.ID = client.id
  /\ mu.readers = {"client"}
  /\ ~ENABLED ConsumerLock

\* handleMessage is between its staleness test and the return of its Save
InCheckAndUpdate(c) == c.pc \in {"refind", "refinding", "save", "writing"}

\* C19 as stated: from the staleness test of handleMessage to its Save the
\* stored record of the event's rocket does not change.
CheckAndUpdateAtomic ==
  [][(InCheckAndUpdate(consumer) /\ InCheckAndUpdate(consumer')) =>
       FindByID(rockets', ChannelOf(consumer.msg)) = FindByID(rockets, ChannelOf(consumer.msg))]_vars

\* the step is an assignment of the client to the object it holds
ClientMutates == client'.mutated /\ client'.obj # client.obj

\* C20: an assignment of the caller to the object FindByID returned (and
\* that it has not handed to Save) leaves the store as it is, so FindByID
\* of the same id still finds the stored values.
DefensiveCopyOnGet ==
  [][(ClientMutates /\ client.origin = "FindByID") =>
       /\ rockets' = rockets
       /\ FindByID(rockets', client.obj.ID) = FindByID(rockets, client.obj.ID)
       /\ FindByID(rockets', client.obj.ID).rocket # client'.obj]_vars

\* C20 witness: the client holds an object returned by FindByID and has
\* assigned to its Speed; the record stored under its id has another Speed.
ReturnedRecordMutated ==
  /\ client.origin = "FindByID"
  /\ client.mutated
  /\ client.pc = "idle"
  /\ client.obj.ID \in DOMAIN rockets
  /\ rockets[client.obj.ID].Speed # client.obj.Speed
  /\ client.alias = {}

\* the place of an id in the order of ids
PlaceOf(id) == CHOOSE i \in 1..Len(IdOrder) : IdOrder[i] = id

\* the step is an assignment of the client to an element of its list
ClientMutatesListed == client'.listMutated /\ client'.list # client.list

\* C21: what FindAll returns has one element for each id in the store and
\* no other, each equal to the stored record of its id, in ascending order
\* of id; and an assignment of the caller to an element of the returned
\* list leaves the store as it is.
ListSnapshot ==
  /\ [][(ClientReadReturns /\ client.op = "FindAll") =>
          /\ Len(client'.list) = Cardinality(DOMAIN rockets)
          /\ {client'.list[i].ID : i \in 1..Len(client'.list)} = DOMAIN rockets
          /\ \A i \in 1..Len(client'.list) : client'.list[i] = rockets[client'.list[i].ID]
          /\ \A i \in 1..Len(client'.list) : \A j \in 1..Len(client'.list) :
                i < j => PlaceOf(client'.list[i].ID) < PlaceOf(client'.list[j].ID)]_vars
  /\ [][ClientMutatesListed => rockets' = rockets]_vars

\* C21 witness: FindAll returned the records of two rockets, in the order
\* of their ids, and the client has assigned to the Speed of the first,
\* which the stored record does not show.
ListedTwoMutatedOne ==
  /\ Len(client.list) = 2
  /\ client.listMutated
  /\ client.list[1].ID = IdOrder[1]
  /\ client.list[2].ID = IdOrder[2]
  /\ client.list[1].ID \in DOMAIN rockets
  /\ rockets[client.list[1].ID].Speed # client.list[1].Speed
  /\ rockets[client.list[2].ID] = client.list[2]

\* C22: the map holds one record under each id, the record of that id; and
\* an id gets a record only in a handleMessage call for a RocketLaunched
\* event of that id that returns no error.
OnlyLaunchCreates ==
  /\ [](\A id \in DOMAIN rockets : rockets[id].ID = id)
  /\ [][\A id \in (DOMAIN rockets') \ (DOMAIN rockets) :
          /\ TypeOf(handled'.msg) = "RocketLaunched"
          /\ ChannelOf(handled'.msg) = id
          /\ handled'.err = Nil]_vars

\* C22 witness: a launch with a sequence above 1 made the record of a
\* rocket that had none, whatever was handled before it.
LateLaunchCreatedRecord ==
  /\ TypeOf(handled.msg) = "RocketLaunched"
  /\ ~handled.existed
  /\ handled.err = Nil
  /\ NumberOf(handled.msg) > 1
  /\ ChannelOf(handled.msg) \in DOMAIN rockets
  /\ rockets[ChannelOf(handled.msg)].LastMessageNumber = NumberOf(handled.msg)
  /\ GetCount(rockets) = 1

QueryStep(op) == query' # query /\ query'.op = op

\* C23: a GET /rockets/:id request whose id is not a UUID is answered with
\* 400 Bad Request and the service is not called; one whose id is a UUID
\* without a record is answered with 404 Not Found; one whose id has a record
\* is answered with 200 OK and the stored record; the store is left as it was
\* in all three.
GetByIdOutcomes ==
  [][QueryStep("GetRocket") =>
       /\ query'.arg \notin RocketIDs =>
            query'.status = StatusBadRequest /\ ~query'.queried
       /\ (query'.arg \in RocketIDs /\ query'.arg \notin DOMAIN rockets) =>
            query'.status = StatusNotFound
       /\ query'.arg \in DOMAIN rockets =>
            query'.status = StatusOK /\ query'.rocket = rockets[query'.arg]
       /\ rockets' = rockets]_vars

\* C23 witness: with a record of the first rocket in the store, a request for
\* the second was answered with 404 Not Found
NotFoundBesideRecord ==
  /\ query.op = "GetRocket"
  /\ query.arg \in RocketIDs \ DOMAIN rockets
  /\ query.status = StatusNotFound
  /\ DOMAIN rockets # {}

\* place of a string in Go's order of strings
Rank(str) == CHOOSE i \in 1..Len(StringOrder) : StringOrder[i] = str

Applies ==
  /\ handled'.err = Nil
  /\ TypeOf(handled'.msg) \in KnownTypes
  /\ ~StaleIn(rockets, handled'.msg)

\* C25: an event that handleMessage applies leaves the record of its rocket
\* with last_sequence the sequence of the event and last_updated the time of
\* the event; a record whose last_sequence or last_updated differs from
\* before, or that is new, is the record of the rocket of an applied event.
Stamping ==
  [][LET msg == handled'.msg
         id == ChannelOf(msg)
     IN /\ Applies =>
             /\ id \in DOMAIN rockets'
             /\ rockets'[id].LastMessageNumber = NumberOf(msg)
             /\ rockets'[id].LastUpdated = msg.Metadata.MessageTime
        /\ \A r \in DOMAIN rockets' :
             (\/ r \notin DOMAIN rockets
              \/ rockets'[r].LastMessageNumber # rockets[r].LastMessageNumber
              \/ rockets'[r].LastUpdated # rockets[r].LastUpdated)
               => (Applies /\ r = id)]_vars

\* C25 witness: a mission change with a later time than the launch has been
\* applied, and the record carries its sequence and its time
MissionChangeStamped ==
  /\ TypeOf(handled.msg) = "RocketMissionChanged"
  /\ handled.err = Nil
  /\ handled.existed
  /\ ~handled.again
  /\ handled.msg.Message.object
  /\ handled.msg.Metadata.MessageTime = "t2"
  /\ ChannelOf(handled.msg) \in DOMAIN rockets
  /\ rockets[ChannelOf(handled.msg)].LastMessageNumber = NumberOf(handled.msg)
  /\ rockets[ChannelOf(handled.msg)].LastUpdated = "t2"
  /\ rockets[ChannelOf(handled.msg)].Mission = "SHUTTLE_MIR"

\* C26: a RocketLaunched event that handleMessage applies leaves, under the
\* channel of the event, the record made of the payload's kind, speed and
\* mission, with status ACTIVE and no explosion reason, stamped with the
\* event; nothing of a record that was there before is kept.
LaunchBuildsFreshRecord ==
  [][(Applies /\ TypeOf(handled'.msg) = "RocketLaunched") =>
       LET msg == handled'.msg
       IN /\ ChannelOf(msg) \in DOMAIN rockets'
          /\ rockets'[ChannelOf(msg)] =
               [ID |-> ChannelOf(msg),
                Type |-> msg.Message.type,
                Speed |-> msg.Message.launchSpeed,
                Mission |-> msg.Message.mission,
                Status |-> StatusActive,
                ExplosionReason |-> "",
                LastMessageNumber |-> NumberOf(msg),
                LastUpdated |-> msg.Metadata.MessageTime]]_vars

\* C26 witness: a launch has been applied to a rocket whose record was
\* EXPLODED, and the record is ACTIVE without a reason
RelaunchedAfterExplosion ==
  /\ TypeOf(handled.msg) = "RocketLaunched"
  /\ handled.err = Nil
  /\ handled.statusBefore = StatusExploded
  /\ ~handled.again
  /\ ChannelOf(handled.msg) \in DOMAIN rockets
  /\ rockets[ChannelOf(handled.msg)].LastMessageNumber = NumberOf(handled.msg)
  /\ rockets[ChannelOf(handled.msg)].Status = StatusActive
  /\ rockets[ChannelOf(handled.msg)].ExplosionReason = ""

\* the record of the rocket of msg in store, stamped with msg
Stamped(store, msg) ==
  [store[ChannelOf(msg)] EXCEPT !.LastMessageNumber = NumberOf(msg),
                                !.LastUpdated = msg.Metadata.MessageTime]

MissionChangeOnlyMission ==
  [][(Applies /\ TypeOf(handled'.msg) = "RocketMissionChanged") =>
       LET msg == handled'.msg
           id == ChannelOf(msg)
       IN /\ id \in DOMAIN rockets
          /\ rockets' = [rockets EXCEPT ![id] =
                [Stamped(rockets, msg) EXCEPT !.Mission = msg.Message.newMission]]]_vars

\* C28 witness: a mission change has been applied to an EXPLODED record,
\* which has the new mission and is EXPLODED with its reason still
ExplodedRocketReassigned ==
  /\ TypeOf(handled.msg) = "RocketMissionChanged"
  /\ handled.err = Nil
  /\ handled.statusBefore = StatusExploded
  /\ ~handled.again
  /\ ChannelOf(handled.msg) \in DOMAIN rockets
  /\ rockets[ChannelOf(handled.msg)].LastMessageNumber = NumberOf(handled.msg)
  /\ rockets[ChannelOf(handled.msg)].Mission = handled.msg.Message.newMission
  /\ rockets[ChannelOf(handled.msg)].Status = StatusExploded
  /\ rockets[ChannelOf(handled.msg)].ExplosionReason # ""

\* C29: a RocketExploded event that handleMessage applies leaves the record
\* as it was but for the stamp, the status, which is EXPLODED, the explosion
\* reason, which is the reason of the payload, and the speed, which is 0.
ExplosionEffect ==
  [][(Applies /\ TypeOf(handled'.msg) = "RocketExploded") =>
       LET msg == handled'.msg
           id == ChannelOf(msg)
       IN /\ id \in DOMAIN rockets
          /\ rockets' = [rockets EXCEPT ![id] =
                [Stamped(rockets, msg) EXCEPT !.Status = StatusExploded,
                                              !.ExplosionReason = msg.Message.reason,
                                              !.Speed = 0]]]_vars

\* C29 witness: an explosion has been applied to an ACTIVE record, which is
\* EXPLODED with the reason of the event, at speed 0, its kind and mission
\* those of the launch
ActiveRocketExploded ==
  /\ TypeOf(handled.msg) = "RocketExploded"
  /\ handled.err = Nil
  /\ handled.statusBefore = StatusActive
  /\ ChannelOf(handled.msg) \in DOMAIN rockets
  /\ rockets[ChannelOf(handled.msg)].LastMessageNumber = NumberOf(handled.msg)
  /\ rockets[ChannelOf(handled.msg)].Status = StatusExploded
  /\ rockets[ChannelOf(handled.msg)].ExplosionReason = handled.msg.Message.reason
  /\ rockets[ChannelOf(handled.msg)].Speed = 0
  /\ rockets[ChannelOf(handled.msg)].Type = "Falcon-9"
  /\ rockets[ChannelOf(handled.msg)].Mission = "ARTEMIS"

\* C30 as stated: in every store state, every record whose status is
\* EXPLODED has speed 0.
ExplodedImpliesZeroSpeed ==
  \A id \in DOMAIN rockets : rockets[id].Status = StatusExploded => rockets[id].Speed = 0

\* the explosion reason of id in store, "" without a record
ReasonOf(store, id) == IF id \in DOMAIN store THEN store[id].ExplosionReason ELSE ""

\* C31: in every store state every ACTIVE record has an empty explosion
\* reason; a step that changes the reason of a rocket applies a
\* RocketExploded event (which stores it) or a RocketLaunched event (which
\* clears it) of that rocket.
ReasonOnlyWhenExploded ==
  /\ [](\A id \in DOMAIN rockets :
          rockets[id].Status = StatusActive => rockets[id].ExplosionReason = "")
  /\ [][\A id \in RocketIDs :
          ReasonOf(rockets', id) # ReasonOf(rockets, id) =>
            /\ Applies
            /\ ChannelOf(handled'.msg) = id
            /\ \/ TypeOf(handled'.msg) = "RocketExploded" /\ ReasonOf(rockets', id) # ""
               \/ TypeOf(handled'.msg) = "RocketLaunched" /\ ReasonOf(rockets', id) = ""]_vars

\* C31 witness: beside the record of another rocket, an EXPLODED rocket has
\* been launched again; every record is ACTIVE and without a reason
ReasonClearedByRelaunch ==
  /\ TypeOf(handled.msg) = "RocketLaunched"
  /\ handled.err = Nil
  /\ handled.statusBefore = StatusExploded
  /\ GetCount(rockets) = 2
  /\ \A id \in DOMAIN rockets :
       rockets[id].Status = StatusActive /\ rockets[id].ExplosionReason = ""

\* msg is of a known type with a payload that parses, is not stale in store,
\* and its rocket has a record in store unless msg launches it
Applicable(store, msg) ==
  /\ TypeOf(msg) \in KnownTypes
  /\ msg.Message.object
  /\ TypeOf(msg) = "RocketLaunched" \/ ChannelOf(msg) \in DOMAIN store
  /\ ~StaleIn(store, msg)

\* every sequence of a rocket that is stale in old is stale in new
StaysStale(old, new) ==
  \A id \in DOMAIN old, n \in MessageNumbers :
    n <= old[id].LastMessageNumber =>
      (id \in DOMAIN new /\ n <= new[id].LastMessageNumber)

\* C32: the later event E2 of a pair, handed to a store before E1, is
\* applied at once whatever sequence numbers below it the store has not
\* seen; E1, handed to that store afterwards with its lower sequence, changes
\* nothing; and a sequence that is stale for a store is stale for it in
\* every later state.
GapsNotAwaited ==
  /\ [][(pair.fed = 0 /\ pair'.fed = 1 /\ Applicable(shadow, pair'.e2)) =>
          /\ ChannelOf(pair'.e2) \in DOMAIN shadow'
          /\ shadow'[ChannelOf(pair'.e2)].LastMessageNumber = NumberOf(pair'.e2)]_vars
  /\ [][(pair.fed = 1 /\ pair'.fed = 2 /\ StaleIn(shadow, pair.e1)) => shadow' = shadow]_vars
  /\ [][StaysStale(rockets, rockets') /\ StaysStale(shadow, shadow')]_vars

\* C32 witness: a speed decrease E1 and a later speed increase E2 were fed
\* in both orders; the store fed E2 first carries the sequence of E2 and
\* the speed without the decrease, which the other store, where E1 was not
\* stale, has applied
LaterIncreaseThenEarlierDecrease ==
  /\ pair.fed = 2
  /\ TypeOf(pair.e1) = "RocketSpeedDecreased"
  /\ pair.e1.Message.object
  /\ TypeOf(pair.e2) = "RocketSpeedIncreased"
  /\ pair.e2.Message.object
  /\ MainRocket \in DOMAIN shadow
  /\ shadow[MainRocket].LastMessageNumber = NumberOf(pair.e2)
  /\ rockets[MainRocket].LastMessageNumber = NumberOf(pair.e2)
  /\ rockets[MainRocket].Speed = shadow[MainRocket].Speed - pair.e1.Message.by

\* C33: a Close call made on a bus that an earlier Close call has closed
\* returns nil and leaves the channel, what it buffers, the closed flag and
\* everything else of the bus as they were.
CloseIdempotent ==
  [][(closes'.calls > closes.calls /\ closed) =>
       /\ closes'.err = Nil
       /\ closed'
       /\ messageChan' = messageChan
       /\ backlogAtClose' = backlogAtClose
       /\ UNCHANGED <<storeVars, ctxDone, stopPc, subPc, subResult, published, pubResult,
                      accepted, delivered, backlogAtStop>>]_vars

\* C33 witness: Close has returned twice on a bus that buffers an envelope
ClosedTwiceWithBacklog ==
  /\ closes.calls >= 2
  /\ closes.err = Nil
  /\ closed
  /\ Len(messageChan) > 0
  /\ backlogAtClose = Len(messageChan)

\* C34: in every state of the bus the channel buffers at least 0 and at
\* most BufferSize envelopes.
BoundedBacklog ==
  Len(messageChan) >= 0 /\ Len(messageChan) <= BufferSize

\* C34 witness: with the consumer running, the channel holds BufferSize
\* envelopes and the last Publish call was turned away as the channel was full
FullAndTurnedAway ==
  /\ Len(messageChan) = BufferSize
  /\ pubResult.err = ErrChannelFull
  /\ subPc = "running"
  /\ ~closed

\* C35: a GetCount call returns the number of ids that have a record; no
\* step takes a record away, so the count never decreases; a FindByID call
\* for an id that has a record returns it, so an id once found is never
\* again not found.
CountAndPermanence ==
  /\ [][(ClientReadReturns /\ client.op = "GetCount") =>
          client'.count = Cardinality(DOMAIN rockets)]_vars
  /\ [][/\ DOMAIN rockets \subseteq DOMAIN rockets'
        /\ Cardinality(DOMAIN rockets') >= Cardinality(DOMAIN rockets)]_vars
  /\ [][(ClientReadReturns /\ client.op = "FindByID" /\ client.id \in DOMAIN rockets) =>
          (client'.err = Nil /\ client'.obj.ID = client.id)]_vars

\* C35 witness: GetCount has returned 2 to the client, which holds a record
\* of its own making, and the store has a record for each of the two rockets
CountedTwo ==
  /\ client.pc = "idle"
  /\ client.count = 2
  /\ client.origin = "new"
  /\ DOMAIN rockets = RocketIDs

\* C36 as stated: an assignment of the caller to the object it has handed
\* to Save, made after Save returned, leaves the store as it is, so FindByID
\* and FindAll return for that id what they returned before.
SaveKeepsSnapshot ==
  [][(ClientMutates /\ client.origin = "Save") =>
       /\ FindByID(rockets', client.obj.ID) = FindByID(rockets, client.obj.ID)
       /\ FindAll(rockets') = FindAll(rockets)]_vars

\* C37: in every store state the reconciler reaches, the record under key k
\* has ID k; and no step changes the ID of a record that is there.
IdMatchesKey ==
  /\ [](\A k \in DOMAIN rockets : k \in RocketIDs /\ rockets[k].ID = k)
  /\ [][\A k \in DOMAIN rockets :
          k \in DOMAIN rockets' /\ rockets'[k].ID = rockets[k].ID]_vars

\* C37 witness: the first rocket, launched, exploded and launched again,
\* and the second have each a record under their id and with their id
RelaunchedUnderSameKey ==
  /\ TypeOf(handled.msg) = "RocketLaunched"
  /\ handled.err = Nil
  /\ handled.statusBefore = StatusExploded
  /\ ChannelOf(handled.msg) = MainRocket
  /\ DOMAIN rockets = RocketIDs
  /\ \A k \in RocketIDs : rockets[k].ID = k
  /\ rockets[MainRocket].LastMessageNumber = NumberOf(handled.msg)

\* C38: a handleMessage call for an event of one rocket, whatever comes of
\* it, leaves every other rocket with the record it had, or without a
\* record if it had none.
EntitiesIndependent ==
  [][\A other \in RocketIDs \ {ChannelOf(handled'.msg)} :
       FindByID(rockets', other) = FindByID(rockets, other)]_vars

\* C38 witness: the first rocket has exploded beside the second, whose
\* record is as its launch left it
ExplodedBesideUntouched ==
  /\ TypeOf(handled.msg) = "RocketExploded"
  /\ handled.err = Nil
  /\ handled.statusBefore = StatusActive
  /\ ChannelOf(handled.msg) = MainRocket
  /\ rockets[MainRocket].Status = StatusExploded
  /\ \E other \in DOMAIN rockets \ {MainRocket} :
       /\ rockets[other].Status = StatusActive
       /\ rockets[other].Speed = 5
       /\ rockets[other].LastMessageNumber = 1

\* the type of msg is unknown or its payload does not parse
Unreadable(msg) == TypeOf(msg) \notin KnownTypes \/ ~msg.Message.object

\* C39: handleMessage returns nil, and leaves the store as it is, for a
\* stale event whose type is unknown or whose payload does not parse; the
\* same kind of event returns an error when it is not stale.
StalenessDecidedFirst ==
  [][Unreadable(handled'.msg) =>
       /\ StaleIn(rockets, handled'.msg) => (handled'.err = Nil /\ rockets' = rockets)
       /\ ~StaleIn(rockets, handled'.msg) => (handled'.err # Nil /\ rockets' = rockets)]_vars

\* C39 witness: a speed change whose payload does not parse, at the
\* last_sequence of its rocket, has been handled without an error
StaleUnparseableDiscarded ==
  /\ TypeOf(handled.msg) \in {"RocketSpeedIncreased", "RocketSpeedDecreased"}
  /\ ~handled.msg.Message.object
  /\ handled.existed
  /\ ChannelOf(handled.msg) \in DOMAIN rockets
  /\ NumberOf(handled.msg) = rockets[ChannelOf(handled.msg)].LastMessageNumber
  /\ handled.err = Nil

\* C40: once the bus is cancelled or closed the Subscribe loop, scheduled
\* again and again, returns in the end, and while it has not returned it has
\* a case of its select to take; a Publish call made after Stop has
\* returned puts nothing on the channel, so no event published after Stop
\* is handled.
ShutdownTerminates ==
  /\ (closed \/ ctxDone) ~> (subPc = "returned")
  /\ []((subPc = "running" /\ (closed \/ ctxDone)) => ENABLED Subscribe)
  /\ [][(stopPc = "stopped" /\ PublishStep) =>
          /\ pubResult'.err # Nil
          /\ messageChan' = messageChan
          /\ accepted' = accepted]_vars

\* C40 witness: Stop has returned, the loop, which had handled an event,
\* has returned, and a Publish call made since was turned away
StoppedReturnedAndTurnedAway ==
  /\ stopPc = "stopped"
  /\ subPc = "returned"
  /\ Len(delivered) > 0
  /\ pubResult.err # Nil
  /\ pubResult.env.ticket > Len(accepted)
  /\ messageChan = <<>>

====
